---- MODULE Spec2Model ----
(***************************************************************************)
(* Recipe bot (src/main.py): the favorites table, the per-user browsing    *)
(* state kept in context.user_data, the two ConversationHandlers and the   *)
(* handlers registered in main().                                          *)
(*                                                                         *)
(* Updates are processed one at a time (Application.builder() is built     *)
(* without concurrent_updates and every handler is blocking), so each      *)
(* handler is one atomic action: Spec.  ConcSpec is the same program with  *)
(* the handlers of button presses allowed to overlap: a press is           *)
(* dispatched, its handler suspends in await query.answer(), and any other *)
(* handler may run before it goes on.  The chat transport is taken to      *)
(* deliver what the handlers send.  Every user talks to the bot in a       *)
(* private chat, so a conversation key (chat_id, user_id) is the user.     *)
(*                                                                         *)
(* recipes.db outlives the process (CREATE TABLE IF NOT EXISTS), while     *)
(* user_data and the conversations start empty: a run starts with the rows *)
(* earlier runs left.  In the runs checked the updates come from the users *)
(* in Actors; the other users are present through the rows they saved      *)
(* before.                                                                 *)
(*                                                                         *)
(* user_data keys are read with .get(key, default) only, so an absent      *)
(* "recipes"/"favorites" key is the empty list and an absent index is 0.   *)
(* A recipe of a search result carries its id and whether it has an image  *)
(* (show_recipe branches on it); title and the two ingredient counts are   *)
(* copied through unchanged and are left out, and so are the snapshot      *)
(* columns of a favorites row, which no handler branches on with an effect *)
(* on the state kept here.                                                 *)
(***************************************************************************)
EXTENDS Integers, Sequences, FiniteSets, Bags, TLC

VARIABLES
    apiKey,         \* os.getenv("SPOONACULAR_API_KEY") is set
    db,             \* rows of table favorites, in storage order
    convSearch,     \* search_conv_handler state per user: "NONE" | "SEARCH"
    convFav,        \* favorites_conv_handler state per user: "NONE" | "FAVORITES"
    recipes,        \* user_data["recipes"]
    recipeIndex,    \* user_data["current_recipe_index"]
    favorites,      \* user_data["favorites"]
    favoriteIndex,  \* user_data["current_favorite_index"]
    last_photo_message_id,      \* user_data["last_photo_message_id"]
    last_fav_photo_message_id,  \* user_data["last_fav_photo_message_id"]
    pending,        \* button handlers suspended in await query.answer()
    out             \* the last update dispatched and what its handler did

vars == <<apiKey, db, convSearch, convFav, recipes, recipeIndex,
          favorites, favoriteIndex, last_photo_message_id,
          last_fav_photo_message_id, pending, out>>

----------------------------------------------------------------------------
(* The local table's last id, and the bounds of the runs checked *)

LastLocalId == 2     \* the local table's ids are 1..LastLocalId
MaxRemote == 1       \* longest list the remote service answers with
MaxWords == 2        \* longest ingredient text, in words
MaxPrior == 1        \* most rows an earlier run left in the table
MaxRows == 3         \* longest table content of the store specification
MaxPending == 2      \* most button handlers suspended at one time

Users == {"u1", "u2"}
Actors == {"u1"}
(* remote ids share the id space of the local table *)
RecipeIds == 1..LastLocalId

(* A recipe of the local table has an image; a remote one is taken to come *)
(* without (recipe.get("image") is empty), under an id that may be one of  *)
(* the local table's.                                                      *)
LocalRecipe(id) == [id |-> id, image |-> TRUE]

RemoteRecipe(id) == [id |-> id, image |-> FALSE]

----------------------------------------------------------------------------
(* Sequence helpers *)

Range(s) == {s[i] : i \in 1..Len(s)}

NoRepeat(s) == \A i, j \in 1..Len(s) : i # j => s[i] # s[j]

SeqsUpTo(S, n) == UNION {[1..k -> S] : k \in 0..n}

RECURSIVE Filter(_, _)
(* [x for x in s if Keep(x)], Keep given as the set of kept values *)
Filter(s, keep) ==
    IF s = <<>> THEN <<>>
    ELSE IF Head(s) \in keep THEN <<Head(s)>> \o Filter(Tail(s), keep)
         ELSE Filter(Tail(s), keep)

----------------------------------------------------------------------------
(* Ingredient text: a sequence of words; str.lower() and the "in" test *)

Words == {"eggs", "Milk"}

Lower(w) == IF w = "Milk" THEN "milk" ELSE w

(* a word said twice changes no substring test *)
Texts == {t \in SeqsUpTo(Words, MaxWords) : NoRepeat(t)}

Contains(text, keyword) == \E i \in 1..Len(text) : text[i] = keyword

(* a local filter that is content with one of the two keywords *)
get_local_recipes_either(ingredients) ==
    LET ingredients_lower == [i \in 1..Len(ingredients) |-> Lower(ingredients[i])]
    IN  IF Contains(ingredients_lower, "eggs") \/ Contains(ingredients_lower, "milk")
        THEN <<LocalRecipe(1), LocalRecipe(2)>>
        ELSE <<>>

get_local_recipes(ingredients) ==
    LET ingredients_lower == [i \in 1..Len(ingredients) |-> Lower(ingredients[i])]
        basic_recipes == <<LocalRecipe(1), LocalRecipe(2)>>
    IN  IF Contains(ingredients_lower, "eggs") /\ Contains(ingredients_lower, "milk")
        THEN basic_recipes
        ELSE <<>>

(* What the remote service does with one request *)
RemoteBodies == {s \in SeqsUpTo(RecipeIds, MaxRemote) : NoRepeat(s)}

Responses ==
    [kind : {"ok"}, body : RemoteBodies]
    \cup [kind : {"402", "http_error", "timeout", "malformed"}, body : {<<>>}]

(* without a key no request is made *)
NoRequest == [kind |-> "no_request", body |-> <<>>]

(* what a call of _call_spoonacular_api can meet: it returns before any    *)
(* request when the key is missing                                         *)
RequestOutcomes(key) == IF key THEN Responses ELSE {NoRequest}

call_spoonacular_api(key, response) ==
    IF ~key THEN <<>>
    ELSE IF response.kind = "ok"
         THEN [i \in 1..Len(response.body) |-> RemoteRecipe(response.body[i])]
         ELSE <<>>

(* a search that trusts the remote answer and has no local fallback *)
search_recipes_remote_only(ingredients, key, response) ==
    call_spoonacular_api(key, response)

search_recipes(ingredients, key, response) ==
    LET api_recipes == call_spoonacular_api(key, response)
    IN  IF api_recipes # <<>> THEN api_recipes
        ELSE get_local_recipes(ingredients)

----------------------------------------------------------------------------
(* Favorites table *)

Row(recipe, user_id) == [recipe_id |-> recipe.id, user_id |-> user_id]

add_favorite(table, recipe, user_id) == Append(table, Row(recipe, user_id))

(* a DELETE whose effect is lost (never committed) *)
remove_favorite_lost(table, recipe_id, user_id) == table

(* a DELETE that stops at the first matching row *)
remove_favorite_first(table, recipe_id, user_id) ==
    IF \E i \in 1..Len(table) :
           table[i].recipe_id = recipe_id /\ table[i].user_id = user_id
    THEN LET k == CHOOSE i \in 1..Len(table) :
                    /\ table[i].recipe_id = recipe_id /\ table[i].user_id = user_id
                    /\ \A j \in 1..(i - 1) :
                          ~(table[j].recipe_id = recipe_id /\ table[j].user_id = user_id)
         IN  SubSeq(table, 1, k - 1) \o SubSeq(table, k + 1, Len(table))
    ELSE table

(* a DELETE without the user_id condition *)
remove_favorite_any_user(table, recipe_id, user_id) ==
    Filter(table, {r \in Range(table) : r.recipe_id # recipe_id})

remove_favorite(table, recipe_id, user_id) ==
    Filter(table, {r \in Range(table) :
                     ~(r.recipe_id = recipe_id /\ r.user_id = user_id)})

(* a SELECT without the WHERE clause *)
get_favorites_all_users(table, user_id) ==
    [i \in 1..Len(table) |-> [id |-> table[i].recipe_id]]

get_favorites(table, user_id) ==
    LET rows == Filter(table, {r \in Range(table) : r.user_id = user_id})
    IN  [i \in 1..Len(rows) |-> [id |-> rows[i].recipe_id]]

is_favorite(table, recipe_id, user_id) ==
    \E i \in 1..Len(table) :
        table[i].recipe_id = recipe_id /\ table[i].user_id = user_id

----------------------------------------------------------------------------
(* Callback data: the string split at "_"; FormatId is str(id) *)

FormatId(id) == CASE id = 1 -> "1" [] id = 2 -> "2" [] id = 3 -> "3"
                  [] id = 4 -> "4" [] OTHER -> "5"

IsInt(s) == s \in {"1", "2", "3", "4", "5"}

ParseInt(s) == CASE s = "1" -> 1 [] s = "2" -> 2 [] s = "3" -> 3
                 [] s = "4" -> 4 [] OTHER -> 5

StartsWith(data, prefix) == Len(data) >= 2 /\ data[1] = prefix

CallbackData ==
    {<<"prev">>, <<"next">>, <<"count">>, <<"done">>,
     <<"fav", "prev">>, <<"fav", "next">>, <<"fav", "count">>, <<"fav", "done">>}
    \cup {<<"fav", FormatId(id)>> : id \in RecipeIds}
    \cup {<<"remove", FormatId(id)>> : id \in RecipeIds}

----------------------------------------------------------------------------
(* Conversation bookkeeping of ConversationHandler: a handler's return     *)
(* value END closes the conversation, None keeps its state, anything else  *)
(* is the new state.  "raised" is a handler that ended in an exception:    *)
(* the state is kept.                                                      *)

UpdateState(state, new_state) ==
    CASE new_state = "END" -> "NONE"
      [] new_state \in {"None", "raised"} -> state
      [] OTHER -> new_state

Outcome(u, h, d, st, rep, ren) ==
    [user |-> u, handler |-> h, data |-> d, status |-> st,
     report |-> rep, render |-> ren]

(* what earlier runs can have left: rows of the other users, a recipe at   *)
(* most once per user                                                      *)
PriorRows ==
    [recipe_id : RecipeIds, user_id : Users \ Actors]

PriorTables ==
    {t \in SeqsUpTo(PriorRows, MaxPrior) :
        \A i, j \in 1..Len(t) :
            i # j => ~(t[i].recipe_id = t[j].recipe_id /\ t[i].user_id = t[j].user_id)}

Init ==
    /\ apiKey \in BOOLEAN
    /\ db \in PriorTables
    /\ convSearch = [u \in Users |-> "NONE"]
    /\ convFav = [u \in Users |-> "NONE"]
    /\ recipes = [u \in Users |-> <<>>]
    /\ recipeIndex = [u \in Users |-> 0]
    /\ favorites = [u \in Users |-> <<>>]
    /\ favoriteIndex = [u \in Users |-> 0]
    /\ last_photo_message_id = [u \in Users |-> "absent"]
    /\ last_fav_photo_message_id = [u \in Users |-> "absent"]
    /\ pending = EmptyBag
    /\ out = Outcome("none", "none", <<>>, "None", "none", "none")

----------------------------------------------------------------------------
(* Commands and text messages *)

(* /start and /help: registered before the conversations, always handled *)
start(u) ==
    /\ out' = Outcome(u, "start", <<>>, "None", "greeting", "none")
    /\ UNCHANGED <<last_photo_message_id, last_fav_photo_message_id, pending>>
    /\ UNCHANGED <<apiKey, db, convSearch, convFav, recipes, recipeIndex,
                   favorites, favoriteIndex>>

help_command(u) ==
    /\ out' = Outcome(u, "help_command", <<>>, "None", "help", "none")
    /\ UNCHANGED <<last_photo_message_id, last_fav_photo_message_id, pending>>
    /\ UNCHANGED <<apiKey, db, convSearch, convFav, recipes, recipeIndex,
                   favorites, favoriteIndex>>

(* /search: entry point of search_conv_handler, taken only outside it *)
search(u) ==
    /\ convSearch[u] = "NONE"
    /\ convSearch' = [convSearch EXCEPT ![u] = UpdateState(@, "SEARCH")]
    /\ out' = Outcome(u, "search", <<>>, "SEARCH", "prompt", "none")
    /\ UNCHANGED <<last_photo_message_id, last_fav_photo_message_id, pending>>
    /\ UNCHANGED <<apiKey, db, convFav, recipes, recipeIndex, favorites,
                   favoriteIndex>>

(* What user_data["last_photo_message_id"] designates: "absent" while the  *)
(* key is not set, "latest" when it is the id of the last recipe message   *)
(* sent in the mode, "older" when it is the id of an earlier one (which    *)
(* the delete_message before the last send has already removed).           *)
(* show_recipe stores the id of what it sends in the send_photo branch     *)
(* only.                                                                   *)
recorded_handle(handle, recipe) ==
    IF recipe.image THEN "latest"
    ELSE IF handle = "absent" THEN "absent" ELSE "older"

(* the handle after show_recipe: nothing is sent in its first branch *)
ShowRecipeHandle(handle, recs, current_index) ==
    IF recs = <<>> \/ current_index >= Len(recs) THEN handle
    ELSE recorded_handle(handle, recs[current_index + 1])

(* show_favorite_recipe stores the id in both of its send branches *)
ShowFavoriteHandle(handle, favs, current_index) ==
    IF favs = <<>> \/ current_index >= Len(favs) THEN handle
    ELSE "latest"

(* the update a search is made for, as the dispatch record keeps it: what  *)
(* the remote service did with the request, then the text                  *)
SearchInput(ingredients, response) == <<response.kind>> \o ingredients

(* a text message in state SEARCH *)
process_search(u, ingredients, response) ==
    /\ convSearch[u] = "SEARCH"
    /\ LET found == search_recipes(ingredients, apiKey, response)
       IN  IF found = <<>>
           THEN /\ convSearch' = [convSearch EXCEPT ![u] = UpdateState(@, "END")]
                /\ out' = Outcome(u, "process_search",
                                  SearchInput(ingredients, response), "END",
                                  "no_results", "none")
                /\ UNCHANGED <<recipes, recipeIndex, last_photo_message_id>>
           ELSE /\ recipes' = [recipes EXCEPT ![u] = found]
                /\ recipeIndex' = [recipeIndex EXCEPT ![u] = 0]
                /\ convSearch' = [convSearch EXCEPT ![u] = UpdateState(@, "SEARCH")]
                /\ out' = Outcome(u, "process_search",
                                  SearchInput(ingredients, response), "SEARCH",
                                  "none", "search")
                /\ last_photo_message_id' =
                      [last_photo_message_id EXCEPT
                          ![u] = ShowRecipeHandle(@, found, 0)]
    /\ UNCHANGED <<apiKey, db, convFav, favorites, favoriteIndex>>
    /\ UNCHANGED <<last_fav_photo_message_id, pending>>

(* /favorites: entry point of favorites_conv_handler, taken only outside it *)
show_favorites(u) ==
    /\ convFav[u] = "NONE"
    /\ LET listed == get_favorites(db, u)
       IN  IF listed = <<>>
           THEN /\ convFav' = [convFav EXCEPT ![u] = UpdateState(@, "None")]
                /\ out' = Outcome(u, "show_favorites", <<>>, "None",
                                  "no_favorites", "none")
                /\ UNCHANGED <<favorites, favoriteIndex,
                               last_fav_photo_message_id>>
           ELSE /\ favorites' = [favorites EXCEPT ![u] = listed]
                /\ favoriteIndex' = [favoriteIndex EXCEPT ![u] = 0]
                /\ convFav' = [convFav EXCEPT ![u] = UpdateState(@, "FAVORITES")]
                /\ out' = Outcome(u, "show_favorites", <<>>, "FAVORITES",
                                  "none", "favorites")
                /\ last_fav_photo_message_id' =
                      [last_fav_photo_message_id EXCEPT
                          ![u] = ShowFavoriteHandle(@, listed, 0)]
    /\ UNCHANGED <<apiKey, db, convSearch, recipes, recipeIndex>>
    /\ UNCHANGED <<last_photo_message_id, pending>>

(* /cancel: a fallback of both conversations; the first registered         *)
(* conversation that is open takes the update, the other never sees it     *)
cancel(u) ==
    /\ convSearch[u] = "SEARCH" \/ convFav[u] = "FAVORITES"
    /\ IF convSearch[u] = "SEARCH"
       THEN /\ convSearch' = [convSearch EXCEPT ![u] = UpdateState(@, "END")]
            /\ UNCHANGED convFav
       ELSE /\ convFav' = [convFav EXCEPT ![u] = UpdateState(@, "END")]
            /\ UNCHANGED convSearch
    /\ out' = Outcome(u, "cancel", <<>>, "END", "cancelled", "none")
    /\ UNCHANGED <<last_photo_message_id, last_fav_photo_message_id, pending>>
    /\ UNCHANGED <<apiKey, db, recipes, recipeIndex, favorites, favoriteIndex>>

(* an update no registered handler accepts is dropped *)
Unhandled(u, kind) ==
    /\ \/ kind = "/search" /\ convSearch[u] = "SEARCH"
       \/ kind = "text" /\ convSearch[u] = "NONE"
       \/ kind = "/favorites" /\ convFav[u] = "FAVORITES"
       \/ kind = "/cancel" /\ convSearch[u] = "NONE" /\ convFav[u] = "NONE"
    /\ out' = Outcome(u, "unhandled", <<kind>>, "None", "none", "none")
    /\ UNCHANGED <<last_photo_message_id, last_fav_photo_message_id, pending>>
    /\ UNCHANGED <<apiKey, db, convSearch, convFav, recipes, recipeIndex,
                   favorites, favoriteIndex>>

----------------------------------------------------------------------------
(* Button presses.  CallbackQueryHandler(handle_favorites_navigation) has  *)
(* no pattern and is the FAVORITES state's handler, so while the favorites *)
(* conversation is open it takes every press; otherwise the press falls    *)
(* through to the last registered handler, handle_recipe_navigation, which *)
(* has no pattern either and belongs to no conversation (its return value  *)
(* is dropped).                                                            *)

(* the registrations in the other order: the handler of the search mode   *)
(* sees every press first                                                  *)
CallbackHandler_search_first(fav_state) == "handle_recipe_navigation"

CallbackHandler(fav_state) ==
    IF fav_state = "FAVORITES" THEN "handle_favorites_navigation"
    ELSE "handle_recipe_navigation"

(* prev/next that wrap around at the ends instead of stopping there *)
recipe_nav_index_wrap(action, current_index, n) ==
    IF action = <<"prev">> THEN (IF current_index > 0 THEN current_index - 1 ELSE n - 1)
    ELSE IF action = <<"next">>
         THEN (IF current_index < n - 1 THEN current_index + 1 ELSE 0)
    ELSE current_index

(* the index the prev/next branches of handle_recipe_navigation leave *)
recipe_nav_index(action, current_index, n) ==
    IF action = <<"prev">> /\ current_index > 0 THEN current_index - 1
    ELSE IF action = <<"next">> /\ current_index < n - 1 THEN current_index + 1
    ELSE current_index

(* next((r for r in recipes if r["id"] == recipe_id), None), as a set of   *)
(* at most one recipe                                                      *)
FindRecipe(recs, recipe_id) ==
    IF \E i \in 1..Len(recs) : recs[i].id = recipe_id
    THEN {recs[CHOOSE i \in 1..Len(recs) :
                 /\ recs[i].id = recipe_id
                 /\ \A j \in 1..(i - 1) : recs[j].id # recipe_id]}
    ELSE {}

(* a toggle that inserts without looking at is_favorite *)
toggle_favorite_always_add(table, recipe, user_id) ==
    add_favorite(table, recipe, user_id)

(* the fav_<id> branch: is_favorite, then remove_favorite or add_favorite *)
toggle_favorite(table, recipe, user_id) ==
    IF is_favorite(table, recipe.id, user_id)
    THEN remove_favorite(table, recipe.id, user_id)
    ELSE add_favorite(table, recipe, user_id)

(* a toggle that goes on to show_recipe and sends the recipe again *)
ToggleOutcome_rerender(u, h, action) ==
    Outcome(u, h, action, "None", "none", "search")

(* the end of the fav_ branch: the keyboard of the pressed message is      *)
(* replaced and the handler returns                                        *)
ToggleOutcome(u, h, action) ==
    Outcome(u, h, action, "None", "none", "edit_markup")

(* show_recipe called for a press: update.message is None there, so the    *)
(* "no recipes or index past the end" branch raises instead of replying    *)
ShowRecipeOutcome(u, h, action, recs, current_index) ==
    IF recs = <<>> \/ current_index >= Len(recs)
    THEN Outcome(u, h, action, "raised", "none", "none")
    ELSE Outcome(u, h, action, "None", "none", "search")

(* handle_recipe_navigation from the return of await query.answer() on:   *)
(* the reads of user_data, the branch taken and its writes, with no        *)
(* suspension before the last write of index and table                     *)
recipe_navigation(u, action) ==
    /\ LET current_index == recipeIndex[u]
           recs == recipes[u]
           h == "handle_recipe_navigation"
           idx == recipe_nav_index(action, current_index, Len(recs))
       IN  IF idx # current_index
           THEN \* one of the first two branches was taken
                /\ recipeIndex' = [recipeIndex EXCEPT ![u] = idx]
                /\ out' = ShowRecipeOutcome(u, h, action, recs, idx)
                /\ last_photo_message_id' =
                      [last_photo_message_id EXCEPT
                          ![u] = ShowRecipeHandle(@, recs, idx)]
                /\ UNCHANGED db
           ELSE IF StartsWith(action, "fav")
           THEN IF ~IsInt(action[2])
                THEN \* int("prev") raises ValueError
                     /\ out' = Outcome(u, h, action, "raised", "none", "none")
                     /\ UNCHANGED <<db, recipeIndex, last_photo_message_id>>
                ELSE LET found == FindRecipe(recs, ParseInt(action[2]))
                     IN  IF found = {}
                         THEN /\ out' = Outcome(u, h, action, "None", "none", "none")
                              /\ UNCHANGED <<db, recipeIndex, last_photo_message_id>>
                         ELSE /\ db' = toggle_favorite(db, CHOOSE r \in found : TRUE, u)
                              /\ out' = ToggleOutcome(u, h, action)
                              /\ UNCHANGED <<recipeIndex, last_photo_message_id>>
           ELSE IF action = <<"done">>
           THEN /\ out' = Outcome(u, h, action, "END", "search_done", "clear_markup")
                /\ UNCHANGED <<db, recipeIndex, last_photo_message_id>>
           ELSE /\ out' = ShowRecipeOutcome(u, h, action, recs, current_index)
                /\ last_photo_message_id' =
                      [last_photo_message_id EXCEPT
                          ![u] = ShowRecipeHandle(@, recs, current_index)]
                /\ UNCHANGED <<db, recipeIndex>>
    /\ UNCHANGED <<apiKey, convSearch, convFav, recipes, favorites, favoriteIndex>>
    /\ UNCHANGED last_fav_photo_message_id

(* a press dispatched to the handler registered after the conversations *)
handle_recipe_navigation(u, action) ==
    /\ CallbackHandler(convFav[u]) = "handle_recipe_navigation"
    /\ recipe_navigation(u, action)
    /\ UNCHANGED pending

(* fav_next without the test for the end of the list *)
favorites_nav_index_past_end(action, current_index, n) ==
    IF action = <<"fav", "prev">> /\ current_index > 0 THEN current_index - 1
    ELSE IF action = <<"fav", "next">> THEN current_index + 1
    ELSE current_index

(* the index the fav_prev/fav_next branches leave *)
favorites_nav_index(action, current_index, n) ==
    IF action = <<"fav", "prev">> /\ current_index > 0 THEN current_index - 1
    ELSE IF action = <<"fav", "next">> /\ current_index < n - 1
         THEN current_index + 1
    ELSE current_index

(* a removal that drops the entry at the head of the list, whatever its id *)
without_recipe_first(favs, recipe_id) ==
    IF favs = <<>> THEN <<>> ELSE Tail(favs)

(* [f for f in favorites if f["id"] != recipe_id] *)
without_recipe(favs, recipe_id) ==
    Filter(favs, {f \in Range(favs) : f.id # recipe_id})

(* a removal that forgets to pull the index back *)
remove_clamp_none(current_index, n) == current_index

(* the index after a removal that leaves n entries *)
remove_clamp(current_index, n) ==
    IF current_index >= n THEN n - 1 ELSE current_index

ShowFavoriteOutcome(u, h, action, favs, current_index) ==
    IF favs = <<>> \/ current_index >= Len(favs)
    THEN Outcome(u, h, action, "raised", "none", "none")
    ELSE Outcome(u, h, action, "None", "none", "favorites")

(* handle_favorites_navigation from the return of await query.answer() on *)
favorites_navigation(u, action) ==
    /\ LET current_index == favoriteIndex[u]
           favs == favorites[u]
           h == "handle_favorites_navigation"
           moved == favorites_nav_index(action, current_index, Len(favs))
       IN  IF moved # current_index
           THEN \* one of the first two branches was taken
                LET o == ShowFavoriteOutcome(u, h, action, favs, moved)
                IN  /\ favoriteIndex' = [favoriteIndex EXCEPT ![u] = moved]
                    /\ out' = o
                    /\ last_fav_photo_message_id' =
                          [last_fav_photo_message_id EXCEPT
                              ![u] = ShowFavoriteHandle(@, favs, moved)]
                    /\ convFav' = [convFav EXCEPT ![u] = UpdateState(@, o.status)]
                    /\ UNCHANGED <<db, favorites>>
           ELSE IF StartsWith(action, "remove")
           THEN IF ~IsInt(action[2])
                THEN /\ out' = Outcome(u, h, action, "raised", "none", "none")
                     /\ UNCHANGED <<db, favorites, favoriteIndex, convFav,
                                    last_fav_photo_message_id>>
                ELSE LET recipe_id == ParseInt(action[2])
                         left == without_recipe(favs, recipe_id)
                         idx == remove_clamp(current_index, Len(left))
                         o == IF left = <<>>
                              THEN Outcome(u, h, action, "END",
                                           "no_favorites_left", "none")
                              ELSE ShowFavoriteOutcome(u, h, action, left, idx)
                     IN  /\ db' = remove_favorite(db, recipe_id, u)
                         /\ favorites' = [favorites EXCEPT ![u] = left]
                         /\ favoriteIndex' =
                              IF left = <<>> THEN favoriteIndex
                              ELSE [favoriteIndex EXCEPT ![u] = idx]
                         /\ out' = o
                         /\ last_fav_photo_message_id' =
                               [last_fav_photo_message_id EXCEPT
                                   ![u] = ShowFavoriteHandle(@, left, idx)]
                         /\ convFav' = [convFav EXCEPT ![u] = UpdateState(@, o.status)]
           ELSE IF action = <<"fav", "done">>
           THEN /\ out' = Outcome(u, h, action, "END", "none", "clear_markup")
                /\ convFav' = [convFav EXCEPT ![u] = UpdateState(@, "END")]
                /\ UNCHANGED <<db, favorites, favoriteIndex,
                               last_fav_photo_message_id>>
           ELSE LET o == ShowFavoriteOutcome(u, h, action, favs, current_index)
                IN  /\ out' = o
                    /\ last_fav_photo_message_id' =
                          [last_fav_photo_message_id EXCEPT
                              ![u] = ShowFavoriteHandle(@, favs, current_index)]
                    /\ convFav' = [convFav EXCEPT ![u] = UpdateState(@, o.status)]
                    /\ UNCHANGED <<db, favorites, favoriteIndex>>
    /\ UNCHANGED <<apiKey, convSearch, recipes, recipeIndex>>
    /\ UNCHANGED last_photo_message_id

(* a press dispatched inside the open favorites conversation *)
handle_favorites_navigation(u, action) ==
    /\ CallbackHandler(convFav[u]) = "handle_favorites_navigation"
    /\ favorites_navigation(u, action)
    /\ UNCHANGED pending

----------------------------------------------------------------------------
Next ==
    \/ \E u \in Actors : start(u)
    \/ \E u \in Actors : help_command(u)
    \/ \E u \in Actors : search(u)
    \/ \E u \in Actors, t \in Texts :
          \E r \in RequestOutcomes(apiKey) : process_search(u, t, r)
    \/ \E u \in Actors : show_favorites(u)
    \/ \E u \in Actors : cancel(u)
    \/ \E u \in Actors, k \in {"/search", "text", "/favorites", "/cancel"} :
          Unhandled(u, k)
    \/ \E u \in Actors, a \in CallbackData : handle_recipe_navigation(u, a)
    \/ \E u \in Actors, a \in CallbackData : handle_favorites_navigation(u, a)

Spec == Init /\ [][Next]_vars

----------------------------------------------------------------------------
(* The store on its own: any table content, rows repeated or not, and the  *)
(* two writing operations applied to it directly.                          *)

AllRows == [recipe_id : RecipeIds, user_id : Users]

StoreInit ==
    /\ apiKey = FALSE
    /\ db \in SeqsUpTo(AllRows, MaxRows)
    /\ convSearch = [u \in Users |-> "NONE"]
    /\ convFav = [u \in Users |-> "NONE"]
    /\ recipes = [u \in Users |-> <<>>]
    /\ recipeIndex = [u \in Users |-> 0]
    /\ favorites = [u \in Users |-> <<>>]
    /\ favoriteIndex = [u \in Users |-> 0]
    /\ last_photo_message_id = [u \in Users |-> "absent"]
    /\ last_fav_photo_message_id = [u \in Users |-> "absent"]
    /\ pending = EmptyBag
    /\ out = Outcome("none", "none", <<>>, "None", "none", "none")

StoreAdd(recipe, user_id) ==
    /\ Len(db) <= MaxRows
    /\ db' = add_favorite(db, recipe, user_id)
    /\ out' = Outcome(user_id, "add_favorite", <<FormatId(recipe.id)>>,
                      "None", "none", "none")
    /\ UNCHANGED <<last_photo_message_id, last_fav_photo_message_id, pending>>
    /\ UNCHANGED <<apiKey, convSearch, convFav, recipes, recipeIndex,
                   favorites, favoriteIndex>>

StoreRemove(recipe_id, user_id) ==
    /\ db' = remove_favorite(db, recipe_id, user_id)
    /\ out' = Outcome(user_id, "remove_favorite", <<FormatId(recipe_id)>>,
                      "None", "none", "none")
    /\ UNCHANGED <<last_photo_message_id, last_fav_photo_message_id, pending>>
    /\ UNCHANGED <<apiKey, convSearch, convFav, recipes, recipeIndex,
                   favorites, favoriteIndex>>

StoreNext ==
    \/ \E id \in RecipeIds, u \in Users : StoreAdd(LocalRecipe(id), u)
    \/ \E id \in RecipeIds, u \in Users : StoreRemove(id, u)

StoreSpec == StoreInit /\ [][StoreNext]_vars

----------------------------------------------------------------------------
(* Overlapping button handlers.  A handler runs from one await to the next *)
(* without interruption.  handle_recipe_navigation and                     *)
(* handle_favorites_navigation suspend first in await query.answer(),      *)
(* before they read user_data; everything from there to the last write of  *)
(* index, list and table is one piece (is_favorite / add_favorite /        *)
(* remove_favorite are plain calls), and the awaits that follow only send. *)
(* The handler of a press is chosen when the update is dispatched.  The    *)
(* table starts empty.                                                     *)

ConcPresses ==
    {<<"prev">>, <<"next">>, <<"fav", "prev">>, <<"fav", "next">>}
    \cup {<<"fav", FormatId(id)>> : id \in RecipeIds}
    \cup {<<"remove", FormatId(id)>> : id \in RecipeIds}

(* the one search text of these runs: it finds the local recipes *)
ConcTexts == {<<"eggs", "Milk">>}

ConcInit ==
    /\ apiKey = FALSE
    /\ db = <<>>
    /\ convSearch = [u \in Users |-> "NONE"]
    /\ convFav = [u \in Users |-> "NONE"]
    /\ recipes = [u \in Users |-> <<>>]
    /\ recipeIndex = [u \in Users |-> 0]
    /\ favorites = [u \in Users |-> <<>>]
    /\ favoriteIndex = [u \in Users |-> 0]
    /\ last_photo_message_id = [u \in Users |-> "absent"]
    /\ last_fav_photo_message_id = [u \in Users |-> "absent"]
    /\ pending = EmptyBag
    /\ out = Outcome("none", "none", <<>>, "None", "none", "none")

(* a press is dispatched and its handler runs up to await query.answer() *)
Dispatch(u, action) ==
    /\ BagCardinality(pending) < MaxPending
    /\ pending' = pending (+) SetToBag({[user |-> u, data |-> action,
                                         handler |-> CallbackHandler(convFav[u])]})
    /\ UNCHANGED <<apiKey, db, convSearch, convFav, recipes, recipeIndex,
                   favorites, favoriteIndex, last_photo_message_id,
                   last_fav_photo_message_id, out>>

(* query.answer() has returned: the handler goes on to its end *)
Resume(p) ==
    /\ BagIn(p, pending)
    /\ pending' = pending (-) SetToBag({p})
    /\ IF p.handler = "handle_recipe_navigation"
       THEN recipe_navigation(p.user, p.data)
       ELSE favorites_navigation(p.user, p.data)

ConcNext ==
    \/ \E u \in Actors : search(u)
    \/ \E u \in Actors, t \in ConcTexts :
          \E r \in RequestOutcomes(apiKey) : process_search(u, t, r)
    \/ \E u \in Actors : show_favorites(u)
    \/ \E u \in Actors, a \in ConcPresses : Dispatch(u, a)
    \/ \E p \in BagToSet(pending) : Resume(p)

ConcSpec == ConcInit /\ [][ConcNext]_vars

----------------------------------------------------------------------------
(* search_recipes on its own: any text over a wider vocabulary, any answer *)
(* of the remote service, the result kept where process_search keeps it.   *)

SearchWords == Words \cup {"milk", "flour"}

SearchTexts == SeqsUpTo(SearchWords, MaxWords)

SearchInit ==
    /\ apiKey \in BOOLEAN
    /\ db = <<>>
    /\ convSearch = [u \in Users |-> "NONE"]
    /\ convFav = [u \in Users |-> "NONE"]
    /\ recipes = [u \in Users |-> <<>>]
    /\ recipeIndex = [u \in Users |-> 0]
    /\ favorites = [u \in Users |-> <<>>]
    /\ favoriteIndex = [u \in Users |-> 0]
    /\ last_photo_message_id = [u \in Users |-> "absent"]
    /\ last_fav_photo_message_id = [u \in Users |-> "absent"]
    /\ pending = EmptyBag
    /\ out = Outcome("none", "none", <<>>, "None", "none", "none")

SearchCall(u, ingredients, response) ==
    /\ recipes' = [recipes EXCEPT ![u] = search_recipes(ingredients, apiKey, response)]
    /\ out' = Outcome(u, "search_recipes", SearchInput(ingredients, response),
                      "None", "none", "none")
    /\ UNCHANGED <<last_photo_message_id, last_fav_photo_message_id, pending>>
    /\ UNCHANGED <<apiKey, db, convSearch, convFav, recipeIndex, favorites,
                   favoriteIndex>>

SearchNext ==
    \E u \in Actors, t \in SearchTexts :
        \E r \in RequestOutcomes(apiKey) : SearchCall(u, t, r)

SearchSpec == SearchInit /\ [][SearchNext]_vars

----------------------------------------------------------------------------
(* Properties *)

HRN == "handle_recipe_navigation"
HFN == "handle_favorites_navigation"

(* C1: in every reachable state, for the search list and the favorites     *)
(* list of every user, a non-empty list has its index inside it:           *)
(* 0 <= index < len(list).                                                 *)
C1_CursorInBounds ==
    \A u \in Users :
        /\ recipes[u] # <<>> =>
              0 <= recipeIndex[u] /\ recipeIndex[u] < Len(recipes[u])
        /\ favorites[u] # <<>> =>
              0 <= favoriteIndex[u] /\ favoriteIndex[u] < Len(favorites[u])

(* a remove press has just left one favorite of several, shown at index 0, *)
(* while a search list is kept too                                         *)
C1_Witness ==
    \E u \in Actors :
        /\ out.user = u /\ out.handler = HFN /\ StartsWith(out.data, "remove")
        /\ out.render = "favorites"
        /\ Len(favorites[u]) = 1 /\ favoriteIndex[u] = 0
        /\ Len(recipes[u]) = 2 /\ recipeIndex[u] = 1

(* what one step may do to the indexes when it handles a prev/next press *)
C2_Step ==
    \A u \in Actors :
        /\ (out'.user = u /\ out'.handler = HRN /\ out'.data = <<"next">>) =>
              /\ recipeIndex'[u] = IF recipeIndex[u] + 1 < Len(recipes[u])
                                  THEN recipeIndex[u] + 1 ELSE recipeIndex[u]
              /\ UNCHANGED <<recipes, convSearch, convFav>>
        /\ (out'.user = u /\ out'.handler = HRN /\ out'.data = <<"prev">>) =>
              /\ recipeIndex'[u] = IF recipeIndex[u] > 0
                                  THEN recipeIndex[u] - 1 ELSE recipeIndex[u]
              /\ UNCHANGED <<recipes, convSearch, convFav>>
        /\ (out'.user = u /\ out'.handler = HFN /\ out'.data = <<"fav", "next">>) =>
              /\ favoriteIndex'[u] = IF favoriteIndex[u] + 1 < Len(favorites[u])
                                    THEN favoriteIndex[u] + 1 ELSE favoriteIndex[u]
              /\ UNCHANGED <<favorites, convSearch, convFav>>
        /\ (out'.user = u /\ out'.handler = HFN /\ out'.data = <<"fav", "prev">>) =>
              /\ favoriteIndex'[u] = IF favoriteIndex[u] > 0
                                    THEN favoriteIndex[u] - 1 ELSE favoriteIndex[u]
              /\ UNCHANGED <<favorites, convSearch, convFav>>

(* C2: a next press moves the index up by one when index + 1 < len(items)  *)
(* and otherwise leaves it; a previous press moves it down by one when     *)
(* index > 0 and otherwise leaves it; in both modes, and the items and the *)
(* conversation states stay as they were.                                  *)
C2_ClampedNavigation == [][C2_Step]_vars

(* a next press handled with the search session open, the last of two      *)
(* recipes shown                                                           *)
C2_Witness ==
    \E u \in Actors :
        /\ out.user = u /\ out.handler = HRN /\ out.data = <<"next">>
        /\ out.render = "search" /\ convSearch[u] = "SEARCH"
        /\ Len(recipes[u]) = 2 /\ recipeIndex[u] = 1

SearchPresses ==
    {<<"prev">>, <<"next">>, <<"done">>} \cup {<<"fav", FormatId(id)>> : id \in RecipeIds}

FavoritesPresses ==
    {<<"fav", "prev">>, <<"fav", "next">>, <<"fav", "done">>}
    \cup {<<"remove", FormatId(id)>> : id \in RecipeIds}

(* C3: a press of prev, next, fav_<id> or done is always handled as the    *)
(* search session's transition, and a press of remove_<id>, fav_prev,      *)
(* fav_next or fav_done is never taken by the search handler into its      *)
(* fav_ (toggle) branch, whatever conversations are open.                  *)
C3_Routing ==
    out.handler \in {HRN, HFN} =>
        /\ out.data \in SearchPresses => out.handler = HRN
        /\ out.data \in FavoritesPresses =>
              ~(out.handler = HRN /\ StartsWith(out.data, "fav"))

(* C4: once done (search mode, a result list being browsed) or fav_done    *)
(* (favorites mode) has been handled, the conversation of that mode is     *)
(* closed for the user.                                                    *)
C4_TerminateCloses ==
    \A u \in Actors :
        /\ (out.user = u /\ out.handler = HRN /\ out.data = <<"done">>
            /\ recipes[u] # <<>>) =>
              convSearch[u] = "NONE"
        /\ (out.user = u /\ out.handler = HFN /\ out.data = <<"fav", "done">>) =>
              convFav[u] = "NONE"

(* C5: no user has the search conversation and the favorites conversation  *)
(* open at the same time.                                                  *)
C5_OneSessionPerUser ==
    \A u \in Users : ~(convSearch[u] = "SEARCH" /\ convFav[u] = "FAVORITES")

(* C6: after /cancel has been handled the user has no conversation open in *)
(* either mode, and the cancellation was reported.                         *)
C6_CancelClosesAll ==
    \A u \in Actors :
        (out.user = u /\ out.handler = "cancel") =>
            /\ convSearch[u] = "NONE" /\ convFav[u] = "NONE"
            /\ out.report = "cancelled"

(* C7: when a remove press leaves the in-memory favorites list empty, the  *)
(* handler reports "no favorites left", returns END (the favorites         *)
(* conversation is closed) and the table holds no row of that user.        *)
C7_RemoveLast ==
    \A u \in Actors :
        (/\ out.user = u /\ out.handler = HFN /\ StartsWith(out.data, "remove")
         /\ IsInt(out.data[2]) /\ favorites[u] = <<>>) =>
            /\ out.report = "no_favorites_left" /\ out.status = "END"
            /\ convFav[u] = "NONE"
            /\ get_favorites(db, u) = <<>>

(* the last favorite was removed while another user's row stays *)
C7_Witness ==
    \E u \in Actors :
        /\ out.user = u /\ out.handler = HFN /\ out.report = "no_favorites_left"
        /\ favorites[u] = <<>> /\ get_favorites(db, u) = <<>> /\ db # <<>>

CountId(list, id) == Cardinality({i \in 1..Len(list) : list[i].id = id})

(* what one step may do to the table when it handles a toggle press *)
C8_Step ==
    \A u \in Actors, id \in RecipeIds :
        (/\ out'.user = u /\ out'.handler = HRN
         /\ out'.data = <<"fav", FormatId(id)>>
         /\ \E i \in 1..Len(recipes[u]) : recipes[u][i].id = id) =>
            /\ CountId(get_favorites(db', u), id) =
                  IF is_favorite(db, id, u) THEN 0 ELSE 1
            /\ without_recipe(get_favorites(db', u), id) =
                  without_recipe(get_favorites(db, u), id)
            /\ get_favorites(db, u) = <<>> => Len(get_favorites(db', u)) = 1

(* C8: a fav_<id> press handled in search mode for a recipe of the current *)
(* result list leaves exactly one favorite with that id if there was none  *)
(* and none if there was one; the user's favorites with other ids stay as  *)
(* they were, so from no favorites the list has exactly one entry.         *)
C8_ToggleFlips == [][C8_Step]_vars

(* a toggle has just removed one favorite and left the user's other one *)
C8_Witness ==
    \E u \in Actors :
        /\ out.user = u /\ out.handler = HRN /\ out.render = "edit_markup"
        /\ IsInt(out.data[2])
        /\ ~is_favorite(db, ParseInt(out.data[2]), u)
        /\ Len(get_favorites(db, u)) = 1

(* C9: whatever the table held, right after add_favorite(r, u)             *)
(* is_favorite(r.id, u) is true and right after remove_favorite(r.id, u)   *)
(* it is false.                                                            *)
C9_RoundTrip ==
    \A u \in Users, id \in RecipeIds :
        /\ (out.user = u /\ out.handler = "add_favorite"
            /\ out.data = <<FormatId(id)>>) => is_favorite(db, id, u)
        /\ (out.user = u /\ out.handler = "remove_favorite"
            /\ out.data = <<FormatId(id)>>) => ~is_favorite(db, id, u)

(* a removal for a user that left rows of the same recipe for the other    *)
(* user in the table                                                       *)
C9_Witness ==
    \E u \in Users, id \in RecipeIds :
        /\ out.user = u /\ out.handler = "remove_favorite"
        /\ out.data = <<FormatId(id)>>
        /\ ~is_favorite(db, id, u)
        /\ \E v \in Users \ {u} : is_favorite(db, id, v)
        /\ Len(db) >= 2

(* what one step may do to the rows of the users it is not taken for *)
C10_Step ==
    \A v \in Users :
        v # out'.user =>
            /\ get_favorites(db', v) = get_favorites(db, v)
            /\ \A id \in RecipeIds :
                  is_favorite(db', id, v) = is_favorite(db, id, v)

(* C10: a step taken for one user changes neither the favorites list nor   *)
(* any is_favorite answer of any other user.                               *)
C10_Isolation == [][C10_Step]_vars

(* a user has just un-favorited a recipe that another user keeps *)
C10_Witness ==
    \E u \in Actors, v \in Users \ Actors :
        /\ out.user = u /\ out.handler = HRN /\ out.render = "edit_markup"
        /\ IsInt(out.data[2])
        /\ ~is_favorite(db, ParseInt(out.data[2]), u)
        /\ is_favorite(db, ParseInt(out.data[2]), v)

(* the text, lower-cased, holds both keywords of the local table *)
HasBothKeywords(text) ==
    /\ \E i \in 1..Len(text) : text[i] \in {"eggs"}
    /\ \E i \in 1..Len(text) : text[i] \in {"milk", "Milk"}

(* C11: without a key, search_recipes makes no request and returns the     *)
(* whole local table (ids 1 and 2, in that order) when the lower-cased     *)
(* text holds both keywords, and the empty list otherwise.                 *)
C11_LocalFallback ==
    \A u \in Actors :
        (out.user = u /\ out.handler = "search_recipes" /\ ~apiKey) =>
            /\ out.data[1] = "no_request"
            /\ recipes[u] = IF HasBothKeywords(Tail(out.data))
                            THEN <<[id |-> 1, image |-> TRUE],
                                   [id |-> 2, image |-> TRUE]>>
                            ELSE <<>>

(* without a key, a text with "Milk" and "eggs" gave the local table *)
C11_Witness ==
    \E u \in Actors :
        /\ out.user = u /\ out.handler = "search_recipes" /\ ~apiKey
        /\ Tail(out.data) = <<"Milk", "eggs">>
        /\ Len(recipes[u]) = 2

(* the answers of the remote service that count as a failed call *)
FailedKinds == {"402", "http_error", "timeout", "malformed"}

ReachedRender ==
    /\ out.handler \in {HRN, HFN}
    /\ \/ out.data \in {<<"prev">>, <<"next">>, <<"fav", "prev">>, <<"fav", "next">>}
       \/ StartsWith(out.data, "remove")
    /\ ~(out.handler = HRN /\ StartsWith(out.data, "fav"))
    /\ ~(out.handler = HFN /\ out.status = "END")

(* C13: whenever a prev/next/toggle/remove press has been handled and the  *)
(* render step ran, the list of the mode rendered is non-empty and the     *)
(* index is inside it, so show_recipe / show_favorite_recipe never take    *)
(* their "empty or index past the end" branch for a press.                 *)
C13_RenderNeverEmpty ==
    \A u \in Actors :
        (out.user = u /\ ReachedRender) =>
            IF out.handler = HRN
            THEN recipes[u] # <<>> /\ recipeIndex[u] < Len(recipes[u])
            ELSE favorites[u] # <<>> /\ favoriteIndex[u] < Len(favorites[u])

(* what a step does when it handles remove_<id> in favorites mode and     *)
(* leaves a non-empty list                                                 *)
C15_Step ==
    \A u \in Actors, id \in RecipeIds :
        (/\ out'.user = u /\ out'.handler = HFN
         /\ out'.data = <<"remove", FormatId(id)>>
         /\ favorites'[u] # <<>>) =>
            /\ favorites'[u] = SelectSeq(favorites[u], LAMBDA f : f.id # id)
            /\ \A i \in 1..Len(favorites'[u]) : favorites'[u][i].id # id
            /\ ~is_favorite(db', id, u)
            /\ favoriteIndex'[u] =
                  IF favoriteIndex[u] <= Len(favorites'[u]) - 1
                  THEN favoriteIndex[u] ELSE Len(favorites'[u]) - 1
            /\ convFav'[u] = "FAVORITES"
            /\ out'.status # "END" /\ out'.render = "favorites"

(* C15: a remove_<id> press in favorites mode that leaves the list         *)
(* non-empty leaves no entry with that id in the in-memory list, the other *)
(* entries in their order, no row for (id, user) in the table, the index   *)
(* at min(old index, len - 1), and the favorites conversation open.        *)
C15_RemoveClamps == [][C15_Step]_vars

(* a removal has left the other favorite of two, listed and stored *)
C15_Witness ==
    \E u \in Actors :
        /\ out.user = u /\ out.handler = HFN /\ StartsWith(out.data, "remove")
        /\ IsInt(out.data[2])
        /\ convFav[u] = "FAVORITES" /\ out.render = "favorites"
        /\ ~is_favorite(db, ParseInt(out.data[2]), u)
        /\ Len(favorites[u]) = 1
        /\ is_favorite(db, favorites[u][1].id, u)

(* the recipe ids of the rows of one user, in table order *)
StoredIds(table, u) ==
    LET rows == SelectSeq(table, LAMBDA row : row.user_id = u)
    IN  [i \in 1..Len(rows) |-> rows[i].recipe_id]

(* what a step does when it starts a session *)
C16_Step ==
    \A u \in Actors :
        /\ (out'.user = u /\ out'.handler = "process_search") =>
              IF out'.status = "SEARCH"
              THEN /\ recipes'[u] # <<>>
                   /\ recipeIndex'[u] = 0
                   /\ convSearch'[u] = "SEARCH"
                   /\ out'.render = "search"
              ELSE /\ out'.status = "END" /\ out'.report = "no_results"
                   /\ convSearch'[u] = "NONE"
                   /\ recipes'[u] = recipes[u]
                   /\ recipeIndex'[u] = recipeIndex[u]
        /\ (out'.user = u /\ out'.handler = "show_favorites") =>
              IF StoredIds(db, u) # <<>>
              THEN /\ [i \in 1..Len(favorites'[u]) |-> favorites'[u][i].id]
                         = StoredIds(db, u)
                   /\ favoriteIndex'[u] = 0
                   /\ convFav'[u] = "FAVORITES"
                   /\ out'.render = "favorites"
              ELSE /\ out'.report = "no_favorites"
                   /\ convFav'[u] = "NONE"
                   /\ favorites'[u] = favorites[u]
                   /\ favoriteIndex'[u] = favoriteIndex[u]

C17_Step ==
    \A u \in Actors, id \in RecipeIds :
        (/\ out'.user = u /\ out'.handler = HRN
         /\ out'.data = <<"fav", FormatId(id)>>) =>
            /\ recipeIndex' = recipeIndex /\ recipes' = recipes
            /\ favoriteIndex' = favoriteIndex /\ favorites' = favorites
            /\ convSearch' = convSearch /\ convFav' = convFav
            /\ out'.status = "None" /\ out'.report = "none"
            /\ out'.render \in {"edit_markup", "none"}
            /\ (\E i \in 1..Len(recipes[u]) : recipes[u][i].id = id) =>
                  out'.render = "edit_markup"

(* C17: a fav_<id> press handled in search mode changes the table only:    *)
(* index and items stay, the conversations stay as they were, and nothing  *)
(* new is sent - the keyboard of the existing message is edited.           *)
C17_ToggleFrame == [][C17_Step]_vars

(* a toggle has just added the second recipe, shown at index 1, with the   *)
(* search session open                                                     *)
C17_Witness ==
    \E u \in Actors :
        /\ out.user = u /\ out.handler = HRN /\ out.render = "edit_markup"
        /\ out.data = <<"fav", FormatId(2)>>
        /\ convSearch[u] = "SEARCH"
        /\ is_favorite(db, 2, u)
        /\ Len(recipes[u]) = 2 /\ recipeIndex[u] = 1

(* C18: while the favorites conversation of a user is open, the recipe    *)
(* ids of the in-memory favorites list are the recipe ids of that user's   *)
(* rows in the table, whatever the user did in between (a search started,  *)
(* buttons of the search mode pressed).                                    *)
C18_ListMatchesStore ==
    \A u \in Actors :
        convFav[u] = "FAVORITES" =>
            {favorites[u][i].id : i \in 1..Len(favorites[u])}
                = {row.recipe_id : row \in {r \in Range(db) : r.user_id = u}}

(* with both conversations open, a toggle button of the search mode was    *)
(* pressed for a recipe that is not a favorite and the favorites handler   *)
(* took it                                                                 *)
C18_Witness ==
    \E u \in Actors :
        /\ convFav[u] = "FAVORITES" /\ convSearch[u] = "SEARCH"
        /\ out.user = u /\ out.handler = HFN
        /\ out.data = <<"fav", FormatId(2)>>
        /\ Len(recipes[u]) = 2
        /\ Len(favorites[u]) = 1 /\ ~is_favorite(db, 2, u)

(* C14: the stored handle of a mode is the id of the last recipe message  *)
(* sent in that mode: right after a handler has sent one, with or without  *)
(* an image, the handle designates it, so that the next render deletes it  *)
(* and one message with buttons at most stays per user and mode.           *)
C14_HandleIsLatest ==
    \A u \in Actors :
        /\ (out.user = u /\ out.render = "search") =>
              last_photo_message_id[u] = "latest"
        /\ (out.user = u /\ out.render = "favorites") =>
              last_fav_photo_message_id[u] = "latest"

(* C19: from an empty table, whatever presses are handled and however    *)
(* their handlers overlap at their awaits, the table never holds two rows  *)
(* with the same user_id and recipe_id: is_favorite and the insert that    *)
(* follows it run without a suspension between them.                       *)
C19_NoDuplicateRows ==
    \A i \in 1..Len(db), j \in 1..Len(db) :
        (i # j) => ~(/\ db[i].user_id = db[j].user_id
                     /\ db[i].recipe_id = db[j].recipe_id)

(* two toggles of the same recipe overlapped: one has added the row while  *)
(* the other is still suspended                                            *)
C19_Witness ==
    \E u \in Actors :
        /\ BagIn([user |-> u, data |-> <<"fav", FormatId(1)>>, handler |-> HRN],
                 pending)
        /\ out.user = u /\ out.handler = HRN
        /\ out.data = <<"fav", FormatId(1)>> /\ out.render = "edit_markup"
        /\ is_favorite(db, 1, u)

(* both indexes are inside their lists *)
C20_Bound ==
    \A u \in Actors :
        /\ recipes[u] # <<>> =>
              0 <= recipeIndex[u] /\ recipeIndex[u] < Len(recipes[u])
        /\ favorites[u] # <<>> =>
              0 <= favoriteIndex[u] /\ favoriteIndex[u] < Len(favorites[u])

(* a suspended handler that goes on applies its press to the index and the *)
(* list that are there when it goes on                                     *)
C20_Step ==
    \A p \in BagToSet(pending) :
        (pending' = pending (-) SetToBag({p})) =>
            LET u == p.user
            IN  /\ (p.handler = HRN /\ p.data = <<"next">>) =>
                      recipeIndex'[u] = IF recipeIndex[u] + 1 < Len(recipes[u])
                                        THEN recipeIndex[u] + 1 ELSE recipeIndex[u]
                /\ (p.handler = HRN /\ p.data = <<"prev">>) =>
                      recipeIndex'[u] = IF recipeIndex[u] > 0
                                        THEN recipeIndex[u] - 1 ELSE recipeIndex[u]
                /\ (p.handler = HFN /\ p.data = <<"fav", "next">>) =>
                      favoriteIndex'[u] =
                          IF favoriteIndex[u] + 1 < Len(favorites[u])
                          THEN favoriteIndex[u] + 1 ELSE favoriteIndex[u]
                /\ (p.handler = HFN /\ p.data = <<"fav", "prev">>) =>
                      favoriteIndex'[u] = IF favoriteIndex[u] > 0
                                          THEN favoriteIndex[u] - 1
                                          ELSE favoriteIndex[u]
                /\ (/\ p.handler = HFN /\ StartsWith(p.data, "remove")
                    /\ favorites'[u] # <<>>) =>
                      /\ favorites'[u] =
                            SelectSeq(favorites[u],
                                      LAMBDA f : f.id # ParseInt(p.data[2]))
                      /\ favoriteIndex'[u] =
                            IF favoriteIndex[u] <= Len(favorites'[u]) - 1
                            THEN favoriteIndex[u] ELSE Len(favorites'[u]) - 1

(* C20: when the handlers of presses of prev, next, remove_<id>, fav_prev  *)
(* and fav_next of one user overlap at their awaits, every reachable state *)
(* has 0 <= index < len(list) for a non-empty list, and every handler      *)
(* applies its step to the index and list it finds when it goes on, so no  *)
(* index update is lost.                                                   *)
C20_ConcurrentCursor == []C20_Bound /\ [][C20_Step]_vars

(* two next presses overlapped on a list of two: the first has moved the   *)
(* index to the end while the second is still suspended                    *)
C20_Witness ==
    \E u \in Actors :
        /\ BagIn([user |-> u, data |-> <<"next">>, handler |-> HRN], pending)
        /\ out.user = u /\ out.handler = HRN /\ out.data = <<"next">>
        /\ Len(recipes[u]) = 2 /\ recipeIndex[u] = 1

====
